---- MODULE Spec2Model ----
(***************************************************************************)
(* Model of loom's blueprint compiler: BlueprintParser.parse_blueprint and *)
(* BlueprintParser._load_and_render_routine (src/src/blueprint_parser/     *)
(* parser.py) over the pydantic models of schema.py.                       *)
(*                                                                         *)
(* File text is modelled as a token tree: a document is empty, a scalar, a *)
(* sequence or a mapping, and a scalar is a sequence of text fragments,    *)
(* some of which are the template references {{ vars.X }}.  A string is    *)
(* the concatenation of its fragments, written as their sequence.          *)
(***************************************************************************)
EXTENDS Integers, Sequences, FiniteSets, TLC

\* ------------------------------------------------------------------------
\* Bounds of the model
\* ------------------------------------------------------------------------
MaxRun == 2         \* longest run list of a generated blueprint
MaxCalls == 2       \* compile calls per behaviour of SpecCalls
NumAddr == 2        \* distinct addresses the allocator may hand out

\* ------------------------------------------------------------------------
\* Python values (what yaml.safe_load returns, what pydantic validates)
\* ------------------------------------------------------------------------
\* A value is the pair <<type, payload>>.
PyNone == <<"none", <<>>>>
PyInt(n) == <<"int", n>>
PyStr(s) == <<"str", s>>
PyList(items) == <<"list", items>>
PyDict(f) == <<"dict", f>>
TypeOf(val) == val[1]
ValOf(val) == val[2]
EmptyDict == PyDict([k \in {} |-> PyNone])

\* The numerals the model knows, as YAML resolves them and as str() prints.
NumeralOf == (1 :> "1") @@ (80 :> "80") @@ (8080 :> "8080")
Numerals == {NumeralOf[n] : n \in DOMAIN NumeralOf}
IntOf(txt) == CHOOSE n \in DOMAIN NumeralOf : NumeralOf[n] = txt

\* str(value), as Jinja2 prints the value of an expression
PyToStr(val) ==
    CASE TypeOf(val) = "int" -> <<NumeralOf[ValOf(val)]>>
      [] TypeOf(val) = "str" -> ValOf(val)
      [] TypeOf(val) = "none" -> <<"None">>
      [] OTHER -> <<"<repr>">>

\* ------------------------------------------------------------------------
\* File text
\* ------------------------------------------------------------------------
\* A fragment of text is the pair <<kind, text>>.
Lit(s) == <<"lit", s>>
Ref(X) == <<"ref", X>>                    \* the text  {{ vars.X }}

\* A node of the text is the pair <<kind, content>>.
TEmpty == <<"empty", <<>>>>               \* no document at all
TScalar(segs) == <<"scalar", segs>>       \* plain scalar
TQuoted(segs) == <<"quoted", segs>>       \* double-quoted scalar
TSeq(items) == <<"seq", items>>
TMap(pairs) == <<"map", pairs>>           \* pairs: <<key, node>>
TBroken(segs) == <<"broken", segs>>       \* text no YAML parser accepts
KindOf(node) == node[1]
ContentOf(node) == node[2]

\* Fragments that end a plain scalar and so break the enclosing mapping
\* ("mapping values are not allowed here")
BreakingText == {": "}

\* ------------------------------------------------------------------------
\* jinja2: Environment(undefined=StrictUndefined).from_string(t).render(vars=context)
\* ------------------------------------------------------------------------
\* Attributes every dict has; Environment.getattr tries getattr(obj, name)
\* before obj[name].
DictAttrs == {"keys", "items", "values", "get", "update"}

AddrText == (1 :> "0x7f01") @@ (2 :> "0x7f02") @@ (3 :> "0x7f03") @@ (4 :> "0x7f04")
Addresses == 1..NumAddr

\* context is [d |-> the vars mapping, id |-> the address of the dict object]
\* Environment.getattr(vars, X): getattr(obj, X), then obj[X], then Undefined

JinjaGetattr(context, X) ==
    IF X \in DictAttrs
    THEN [ok |-> TRUE,
          out |-> <<"<built-in method ", X, " of dict object at ",
                    AddrText[context.id], ">">>]
    ELSE IF X \in DOMAIN ValOf(context.d)
    THEN [ok |-> TRUE, out |-> PyToStr(ValOf(context.d)[X])]
    ELSE [ok |-> FALSE, out |-> <<>>]          \* an Undefined object

RECURSIVE RenderSegs(_, _)
RenderSegs(segs, context) ==
    IF segs = <<>> THEN <<>>
    ELSE LET s == Head(segs)
             out == IF s[1] = "ref"
                    THEN [i \in 1..Len(JinjaGetattr(context, s[2]).out) |->
                            Lit(JinjaGetattr(context, s[2]).out[i])]
                    ELSE <<s>>
         IN out \o RenderSegs(Tail(segs), context)

RECURSIVE SegRefs(_)
SegRefs(segs) ==
    IF segs = <<>> THEN <<>>
    ELSE (IF Head(segs)[1] = "ref" THEN <<Head(segs)[2]>> ELSE <<>>)
         \o SegRefs(Tail(segs))

\* The references of a text, in document order
RECURSIVE TextRefs(_)
RECURSIVE ItemsRefs(_, _)
TextRefs(node) ==
    CASE KindOf(node) \in {"scalar", "quoted", "broken"} -> SegRefs(ContentOf(node))
      [] KindOf(node) \in {"seq", "map"} -> ItemsRefs(node, 1)
      [] OTHER -> <<>>
ItemsRefs(node, i) ==
    IF i > Len(ContentOf(node)) THEN <<>>
    ELSE TextRefs(IF KindOf(node) = "map" THEN ContentOf(node)[i][2] ELSE ContentOf(node)[i])
         \o ItemsRefs(node, i + 1)

RECURSIVE RenderText(_, _)
RenderText(node, context) ==
    CASE KindOf(node) \in {"scalar", "quoted", "broken"} ->
            <<KindOf(node), RenderSegs(ContentOf(node), context)>>
      [] KindOf(node) = "seq" ->
            TSeq([i \in 1..Len(ContentOf(node)) |-> RenderText(ContentOf(node)[i], context)])
      [] KindOf(node) = "map" ->
            TMap([i \in 1..Len(ContentOf(node)) |->
                    <<ContentOf(node)[i][1], RenderText(ContentOf(node)[i][2], context)>>])
      [] OTHER -> node

Undefineds(node, context) ==
    SelectSeq(TextRefs(node), LAMBDA X : ~JinjaGetattr(context, X).ok)

\* template.render: the rendered text, or UndefinedError for the first
\* reference that evaluates to an Undefined object, when the environment's
\* undefined type is StrictUndefined (an Undefined prints as nothing)
JinjaRender(env, node, context) ==
    LET u == Undefineds(node, context) IN
    IF u # <<>> /\ env.undefined = "StrictUndefined"
    THEN [ok |-> FALSE, text |-> TEmpty,
          cause |-> <<"'dict object' has no attribute '", u[1], "'">>]
    ELSE [ok |-> TRUE, text |-> RenderText(node, context), cause |-> <<>>]

\* ------------------------------------------------------------------------
\* yaml.safe_load
\* ------------------------------------------------------------------------
RECURSIVE YamlWellFormed(_)
YamlWellFormed(node) ==
    CASE KindOf(node) = "broken" -> FALSE
      [] KindOf(node) = "scalar" ->
            \A i \in 1..Len(ContentOf(node)) : ContentOf(node)[i][2] \notin BreakingText
      [] KindOf(node) = "seq" -> \A i \in 1..Len(ContentOf(node)) : YamlWellFormed(ContentOf(node)[i])
      [] KindOf(node) = "map" -> \A i \in 1..Len(ContentOf(node)) : YamlWellFormed(ContentOf(node)[i][2])
      [] OTHER -> TRUE

\* The characters of a scalar; a reference left in the text reads as it is
\* written
RECURSIVE ScalarText(_)
ScalarText(segs) ==
    IF segs = <<>> THEN <<>>
    ELSE (IF Head(segs)[1] = "ref" THEN <<"{{ vars.", Head(segs)[2], " }}">>
                                   ELSE <<Head(segs)[2]>>)
         \o ScalarText(Tail(segs))

\* Resolution of a plain scalar
ResolveScalar(txt) ==
    IF Len(txt) = 1 /\ txt[1] \in Numerals THEN PyInt(IntOf(txt[1]))
    ELSE IF txt = <<>> \/ txt = <<"null">> THEN PyNone
    ELSE PyStr(txt)

RECURSIVE YamlConstruct(_)
RECURSIVE ConstructMap(_, _)
YamlConstruct(node) ==
    CASE KindOf(node) = "empty" -> PyNone
      [] KindOf(node) = "scalar" -> ResolveScalar(ScalarText(ContentOf(node)))
      [] KindOf(node) = "quoted" -> PyStr(ScalarText(ContentOf(node)))
      [] KindOf(node) = "seq" ->
            PyList([i \in 1..Len(ContentOf(node)) |-> YamlConstruct(ContentOf(node)[i])])
      [] KindOf(node) = "map" -> PyDict(ConstructMap(ContentOf(node), Len(ContentOf(node))))
      [] OTHER -> PyNone
\* later pairs override earlier ones with the same key
ConstructMap(pairs, k) ==
    IF k = 0 THEN [x \in {} |-> PyNone]
    ELSE (pairs[k][1] :> YamlConstruct(pairs[k][2])) @@ ConstructMap(pairs, k - 1)

SafeLoad(node) ==
    IF YamlWellFormed(node)
    THEN [ok |-> TRUE, value |-> YamlConstruct(node)]
    ELSE [ok |-> FALSE, value |-> PyNone]

\* ------------------------------------------------------------------------
\* schema.py: the pydantic models
\* ------------------------------------------------------------------------
Has(raw, key) == key \in DOMAIN ValOf(raw)
Get(raw, key) == ValOf(raw)[key]
IsStr(val) == TypeOf(val) = "str"
IsDict(val) == TypeOf(val) = "dict"
IsList(val) == TypeOf(val) = "list"

\* StepModel: name: str, uses: str, ensure: str = "present",
\* with_args: dict = Field(default_factory=dict, alias="with")
StepValid(raw) ==
    /\ IsDict(raw)
    /\ Has(raw, "name") /\ IsStr(Get(raw, "name"))
    /\ Has(raw, "uses") /\ IsStr(Get(raw, "uses"))
    /\ Has(raw, "ensure") => IsStr(Get(raw, "ensure"))
    /\ Has(raw, "with") => IsDict(Get(raw, "with"))

StepModel(raw) ==
    [name |-> Get(raw, "name"),
     uses |-> Get(raw, "uses"),
     ensure |-> IF Has(raw, "ensure") THEN Get(raw, "ensure")
                                      ELSE PyStr(<<"present">>),
     with_args |-> IF Has(raw, "with") THEN Get(raw, "with") ELSE EmptyDict]

\* RoutineModel: steps: list[StepModel]
RoutineValid(raw) ==
    /\ Has(raw, "steps") /\ IsList(Get(raw, "steps"))
    /\ \A j \in 1..Len(ValOf(Get(raw, "steps"))) :
            StepValid(ValOf(Get(raw, "steps"))[j])

RoutineModel(raw) ==
    [steps |-> [j \in 1..Len(ValOf(Get(raw, "steps"))) |->
                    StepModel(ValOf(Get(raw, "steps"))[j])]]

\* TaskRefModel: file: str, when: str | None = None
TaskRefValid(raw) ==
    /\ IsDict(raw)
    /\ Has(raw, "file") /\ IsStr(Get(raw, "file"))
    /\ Has(raw, "when") => (IsStr(Get(raw, "when")) \/ Get(raw, "when") = PyNone)

TaskRefModel(raw) ==
    [file |-> Get(raw, "file"),
     when |-> IF Has(raw, "when") THEN Get(raw, "when") ELSE PyNone]

\* BlueprintModel: name, target, user: str,
\* vars: dict = Field(default_factory=dict), run: list[TaskRefModel]
BlueprintValid(raw) ==
    /\ \A key \in {"name", "target", "user"} :
            Has(raw, key) /\ IsStr(Get(raw, key))
    /\ Has(raw, "vars") => IsDict(Get(raw, "vars"))
    /\ Has(raw, "run") /\ IsList(Get(raw, "run"))
    /\ \A j \in 1..Len(ValOf(Get(raw, "run"))) :
            TaskRefValid(ValOf(Get(raw, "run"))[j])

BlueprintModel(raw) ==
    [name |-> Get(raw, "name"),
     target |-> Get(raw, "target"),
     user |-> Get(raw, "user"),
     vars |-> IF Has(raw, "vars") THEN Get(raw, "vars") ELSE EmptyDict,
     run |-> [j \in 1..Len(ValOf(Get(raw, "run"))) |->
                    TaskRefModel(ValOf(Get(raw, "run"))[j])]]

\* step.model_dump(): the fields under their own names
ModelDumpByName(step) ==
    [name |-> step.name, uses |-> step.uses, ensure |-> step.ensure,
     with_args |-> step.with_args]

\* step.model_dump(by_alias=True): the field with_args is written under its
\* alias
ModelDump(step) ==
    [name |-> step.name, uses |-> step.uses, ensure |-> step.ensure,
     with |-> step.with_args]

\* ------------------------------------------------------------------------
\* The file system and pathlib
\* ------------------------------------------------------------------------
\* A path is the sequence of its components, "/" first when it is absolute.
\* A name is a str, the atom "/" being the separator.
IsAbsolute(name) == name # <<>> /\ Head(name) = "/"

RECURSIVE PathParts(_)
PathParts(name) ==
    IF name = <<>> THEN <<>>
    ELSE (IF Head(name) \in {"/", "."} THEN <<>> ELSE <<Head(name)>>)
         \o PathParts(Tail(name))

\* base / name: an absolute name replaces base, and ".." stays in the path
PathJoin(base, name) ==
    IF IsAbsolute(name) THEN <<"/">> \o PathParts(name)
    ELSE base \o PathParts(name)
PathText(path) == path

\* The file the system finds for a path: ".." steps to the parent directory
\* (every directory a path of the model names exists, and none is a link)
RECURSIVE Resolve(_, _)
Resolve(done, rest) ==
    IF rest = <<>> THEN done
    ELSE IF Head(rest) = ".."
         THEN Resolve(IF Len(done) > 1 THEN SubSeq(done, 1, Len(done) - 1)
                                      ELSE done,
                      Tail(rest))
         ELSE Resolve(Append(done, Head(rest)), Tail(rest))

Absent == <<"absent", TEmpty>>
Directory == <<"dir", TEmpty>>
File(text) == <<"file", text>>

\* ------------------------------------------------------------------------
\* State
\* ------------------------------------------------------------------------
VARIABLES
    fs,                 \* path -> Absent, Directory or File(text); read-only
    self,               \* the BlueprintParser instance
    budget,             \* compile calls the caller may still make
    calls,              \* the finished calls: the blueprint named, the
                        \* outcome, and the stage and task reference at
                        \* which the call ended
    pc,                 \* position in parse_blueprint / _load_and_render_routine
    filename,           \* argument of parse_blueprint
    f,                  \* the text of the open blueprint file
    raw_data, blueprint, execution_plan, routine,
    idx,                \* position of task_ref in blueprint.run
    context,            \* argument of _load_and_render_routine
    raw_content, rendered_yaml, data,
    result,             \* what the current or last call gave its caller
    log,                \* file-system and library operations of the call
    stdout              \* what the call printed

vars == <<fs, self, budget, calls, pc, filename, f, raw_data, blueprint,
          execution_plan, idx, context, raw_content, rendered_yaml, data,
          routine, result, log, stdout>>

env == <<fs, self, budget>>
bp_locals == <<f, raw_data, blueprint, execution_plan, idx, routine>>
rt_locals == <<context, raw_content, rendered_yaml, data>>

\* blueprint is [model |-> the BlueprintModel, vars_id |-> the address of the
\* dict object blueprint.vars]
NoBlueprint ==
    [model |-> [name |-> PyNone, target |-> PyNone, user |-> PyNone,
                vars |-> EmptyDict, run |-> <<>>],
     vars_id |-> 0]
NoPlan == [meta |-> [name |-> PyNone, target |-> PyNone, user |-> PyNone],
           tasks |-> <<>>]
NoContext == [d |-> EmptyDict, id |-> 0]
NoRoutine == [steps |-> <<>>]
NoResult == [kind |-> "none", exc |-> "", msg |-> <<>>, plan |-> NoPlan]
Returned(plan) == [kind |-> "return", exc |-> "", msg |-> <<>>, plan |-> plan]
Raised(exc, msg) == [kind |-> "raise", exc |-> exc, msg |-> msg, plan |-> NoPlan]

Lookup(path) ==
    IF Resolve(<<>>, path) \in DOMAIN fs THEN fs[Resolve(<<>>, path)] ELSE Absent

Event(op, ref) == [op |-> op, ref |-> ref]

\* The frame of the call is dropped; the caller gets outcome
Finish(outcome) ==
    /\ pc' = "idle"
    /\ result' = outcome
    /\ calls' = Append(calls, [filename |-> filename, outcome |-> outcome,
                                stage |-> pc, ref |-> idx])
    /\ f' = TEmpty
    /\ raw_data' = PyNone
    /\ blueprint' = NoBlueprint
    /\ execution_plan' = NoPlan
    /\ idx' = 0
    /\ context' = NoContext
    /\ raw_content' = TEmpty
    /\ rendered_yaml' = TEmpty
    /\ data' = PyNone
    /\ routine' = NoRoutine

\* a compiler that hands the entries built so far to its caller on failure
RaiseKeepingPlan(exc, msg) ==
    Finish([Raised(exc, msg) EXCEPT !.plan = execution_plan])

\* raise exc(msg)
Raise(exc, msg) == Finish(Raised(exc, msg))

\* ------------------------------------------------------------------------
\* BlueprintParser.__init__
\* ------------------------------------------------------------------------
ProjectRoot == <<"/", "proj">>

NewParser(project_root) ==
    [root |-> project_root,
     tasks_dir |-> PathJoin(project_root, <<"tasks">>),
     jinja_env |-> [undefined |-> "StrictUndefined"]]

\* ------------------------------------------------------------------------
\* BlueprintParser.parse_blueprint
\* ------------------------------------------------------------------------
BlueprintNames == {"bp.yaml", "other.yaml"}

ParseBlueprint(name) ==
    /\ pc = "idle"
    /\ budget > 0
    /\ budget' = budget - 1
    /\ filename' = name
    /\ pc' = "open_blueprint"
    /\ result' = NoResult
    /\ log' = <<>>
    /\ stdout' = <<>>
    /\ UNCHANGED <<fs, self, calls, bp_locals, rt_locals>>

\* 1. open(blueprint_path)
OpenBlueprint ==
    /\ pc = "open_blueprint"
    /\ log' = Append(log, Event("open", 0))
    /\ LET blueprint_path == PathJoin(self.root, <<filename>>)
           node == Lookup(blueprint_path)
       IN CASE node[1] = "absent" ->
                 Raise("FileNotFoundError",
                       <<"Blueprint not found at ">> \o PathText(blueprint_path))
            [] node[1] = "dir" ->
                 Raise("IsADirectoryError",
                       <<"Is a directory: ">> \o PathText(blueprint_path))
            [] node[1] = "file" ->
                 /\ f' = node[2]
                 /\ pc' = "load_blueprint"
                 /\ UNCHANGED <<calls, result, raw_data, blueprint,
                                execution_plan, idx, routine, rt_locals>>
    /\ UNCHANGED <<env, filename, stdout>>

\* raw_data = yaml.safe_load(f)
LoadBlueprint ==
    /\ pc = "load_blueprint"
    /\ log' = Append(log, Event("parse", 0))
    /\ LET loaded == SafeLoad(f) IN
       IF ~loaded.ok
       THEN Raise("ValueError",
                  <<"YAML Syntax Error in ", filename, ": ", "<YAMLError>">>)
       ELSE /\ raw_data' = loaded.value
            /\ f' = TEmpty
            /\ pc' = "check_blueprint"
            /\ UNCHANGED <<calls, result, blueprint, execution_plan, idx,
                           routine, rt_locals>>
    /\ UNCHANGED <<env, filename, stdout>>

\* "if not raw_data": an empty mapping counts as an empty file
CheckBlueprintFalsy ==
    /\ pc = "check_blueprint"
    /\ IF raw_data = PyNone \/ raw_data = EmptyDict
       THEN Raise("ValueError", <<"Blueprint file ", filename, " is empty">>)
       ELSE /\ pc' = "validate_blueprint"
            /\ UNCHANGED <<calls, result, bp_locals, rt_locals>>
    /\ log' = Append(log, Event("empty", 0))
    /\ UNCHANGED <<env, filename, stdout>>

\* if raw_data is None
CheckBlueprint ==
    /\ pc = "check_blueprint"
    /\ IF raw_data = PyNone
       THEN Raise("ValueError", <<"Blueprint file ", filename, " is empty">>)
       ELSE /\ pc' = "validate_blueprint"
            /\ UNCHANGED <<calls, result, bp_locals, rt_locals>>
    /\ log' = Append(log, Event("empty", 0))
    /\ UNCHANGED <<env, filename, stdout>>

\* a compiler that looks the routine files up before it validates the
\* blueprint
ValidateBlueprintAfterLookup ==
    /\ pc = "validate_blueprint"
    /\ log' = Append(log, Event("validate", 0))
    /\ LET missing ==
            /\ IsDict(raw_data)
            /\ Has(raw_data, "run") /\ IsList(Get(raw_data, "run"))
            /\ \E j \in 1..Len(ValOf(Get(raw_data, "run"))) :
                    /\ TaskRefValid(ValOf(Get(raw_data, "run"))[j])
                    /\ Lookup(PathJoin(self.tasks_dir,
                            ValOf(Get(ValOf(Get(raw_data, "run"))[j], "file"))))[1]
                          = "absent"
       IN CASE missing ->
                 Raise("FileNotFoundError", <<"Task file missing: ">>)
            [] ~missing /\ ~IsDict(raw_data) ->
                 Raise("TypeError", <<"argument after ** must be a mapping">>)
            [] ~missing /\ IsDict(raw_data) /\ ~BlueprintValid(raw_data) ->
                 Raise("ValueError", <<"Blueprint Grammar Error:\n", "<ValidationError>">>)
            [] ~missing /\ IsDict(raw_data) /\ BlueprintValid(raw_data) ->
                 /\ \E a \in Addresses :
                       blueprint' = [model |-> BlueprintModel(raw_data), vars_id |-> a]
                 /\ pc' = "create_plan"
                 /\ UNCHANGED <<calls, result, f, raw_data, execution_plan, idx,
                                routine, rt_locals>>
    /\ UNCHANGED <<env, filename, stdout>>

\* 2. BlueprintModel(**raw_data)
ValidateBlueprint ==
    /\ pc = "validate_blueprint"
    /\ log' = Append(log, Event("validate", 0))
    /\ CASE ~IsDict(raw_data) ->
              Raise("TypeError", <<"argument after ** must be a mapping">>)
         [] IsDict(raw_data) /\ ~BlueprintValid(raw_data) ->
              Raise("ValueError", <<"Blueprint Grammar Error:\n", "<ValidationError>">>)
         [] IsDict(raw_data) /\ BlueprintValid(raw_data) ->
              /\ \E a \in Addresses :
                    blueprint' = [model |-> BlueprintModel(raw_data), vars_id |-> a]
              /\ pc' = "create_plan"
              /\ UNCHANGED <<calls, result, f, raw_data, execution_plan, idx,
                             routine, rt_locals>>
    /\ UNCHANGED <<env, filename, stdout>>

\* 3. the empty plan, and the line printed before the run list is processed
CreatePlan ==
    /\ pc = "create_plan"
    /\ execution_plan' =
            [meta |-> [name |-> blueprint.model.name,
                       target |-> blueprint.model.target,
                       user |-> blueprint.model.user],
             tasks |-> <<>>]
    /\ stdout' = Append(stdout, <<"[*] Parsing Blueprint: ", blueprint.model.name>>)
    /\ idx' = 1
    /\ pc' = "for_task_ref"
    /\ UNCHANGED <<env, calls, filename, f, raw_data, blueprint, routine,
                   rt_locals, result, log>>

\* 4. for task_ref in blueprint.run: call _load_and_render_routine with
\* blueprint.vars or {}  (an empty vars is falsy: a new dict for each call)
ForTaskRef ==
    /\ pc = "for_task_ref"
    /\ IF idx > Len(blueprint.model.run)
       THEN /\ pc' = "return"
            /\ UNCHANGED context
       ELSE /\ pc' = "exists"
            /\ IF DOMAIN ValOf(blueprint.model.vars) = {}
               THEN \E a \in Addresses : context' = [d |-> EmptyDict, id |-> a]
               ELSE context' = [d |-> blueprint.model.vars,
                                id |-> blueprint.vars_id]
    /\ UNCHANGED <<env, calls, filename, bp_locals, raw_content, rendered_yaml,
                   data, result, log, stdout>>

\* return execution_plan
Return ==
    /\ pc = "return"
    /\ Finish(Returned(execution_plan))
    /\ UNCHANGED <<env, filename, log, stdout>>

\* ------------------------------------------------------------------------
\* BlueprintParser._load_and_render_routine(task_ref.file, context)
\* ------------------------------------------------------------------------
task_ref == blueprint.model.run[idx]
RoutineName == ValOf(task_ref.file)          \* the str filename
task_path == PathJoin(self.tasks_dir, RoutineName)

\* a missing routine reported as a ValueError
CheckExistsValueError ==
    /\ pc = "exists"
    /\ log' = Append(log, Event("exists", idx))
    /\ IF Lookup(task_path)[1] = "absent"
       THEN Raise("ValueError",
                  <<"Task file missing: ">> \o PathText(task_path))
       ELSE /\ pc' = "read"
            /\ UNCHANGED <<calls, result, bp_locals, rt_locals>>
    /\ UNCHANGED <<env, filename, stdout>>

\* if not task_path.exists()
CheckExists ==
    /\ pc = "exists"
    /\ log' = Append(log, Event("exists", idx))
    /\ IF Lookup(task_path)[1] = "absent"
       THEN Raise("FileNotFoundError",
                  <<"Task file missing: ">> \o PathText(task_path))
       ELSE /\ pc' = "read"
            /\ UNCHANGED <<calls, result, bp_locals, rt_locals>>
    /\ UNCHANGED <<env, filename, stdout>>

\* A. open(task_path) and f.read()
ReadRaw ==
    /\ pc = "read"
    /\ log' = Append(log, Event("read", idx))
    /\ IF Lookup(task_path)[1] = "dir"
       THEN Raise("IsADirectoryError",
                  <<"Is a directory: ">> \o PathText(task_path))
       ELSE /\ raw_content' = Lookup(task_path)[2]
            /\ pc' = "render"
            /\ UNCHANGED <<calls, result, bp_locals, context, rendered_yaml,
                           data>>
    /\ UNCHANGED <<env, filename, stdout>>

\* B. jinja_env.from_string(raw_content).render(vars=context)
RenderVariables ==
    /\ pc = "render"
    /\ log' = Append(log, Event("render", idx))
    /\ LET r == JinjaRender(self.jinja_env, raw_content, context) IN
       IF ~r.ok
       THEN Raise("ValueError",
                  <<"Variable Error in ">> \o RoutineName \o <<": ">> \o r.cause)
       ELSE /\ rendered_yaml' = r.text
            /\ pc' = "parse"
            /\ UNCHANGED <<calls, result, bp_locals, context, raw_content, data>>
    /\ UNCHANGED <<env, filename, stdout>>

\* a compiler that reports a syntax error of a rendered routine in the words
\* it uses for the blueprint
ParseRenderedUnmarked ==
    /\ pc = "parse"
    /\ log' = Append(log, Event("parse", idx))
    /\ LET loaded == SafeLoad(rendered_yaml) IN
       IF ~loaded.ok
       THEN Raise("ValueError",
                  <<"YAML Syntax Error in ">> \o RoutineName
                      \o <<": ", "<YAMLError>">>)
       ELSE /\ data' = loaded.value
            /\ pc' = "check_routine"
            /\ UNCHANGED <<calls, result, bp_locals, context, raw_content,
                           rendered_yaml>>
    /\ UNCHANGED <<env, filename, stdout>>

\* C. yaml.safe_load(rendered_yaml)
ParseRendered ==
    /\ pc = "parse"
    /\ log' = Append(log, Event("parse", idx))
    /\ LET loaded == SafeLoad(rendered_yaml) IN
       IF ~loaded.ok
       THEN Raise("ValueError",
                  <<"YAML Syntax Error in ">> \o RoutineName
                      \o <<" after rendering: ", "<YAMLError>">>)
       ELSE /\ data' = loaded.value
            /\ pc' = "check_routine"
            /\ UNCHANGED <<calls, result, bp_locals, context, raw_content,
                           rendered_yaml>>
    /\ UNCHANGED <<env, filename, stdout>>

CheckRoutine ==
    /\ pc = "check_routine"
    /\ log' = Append(log, Event("empty", idx))
    /\ IF data = PyNone
       THEN Raise("ValueError",
                  <<"Task file ">> \o RoutineName \o <<" is empty after rendering">>)
       ELSE /\ pc' = "validate_routine"
            /\ UNCHANGED <<calls, result, bp_locals, rt_locals>>
    /\ UNCHANGED <<env, filename, stdout>>

\* D. RoutineModel(**data)
ValidateRoutine ==
    /\ pc = "validate_routine"
    /\ log' = Append(log, Event("validate", idx))
    /\ CASE ~IsDict(data) ->
              Raise("TypeError", <<"argument after ** must be a mapping">>)
         [] IsDict(data) /\ ~RoutineValid(data) ->
              Raise("ValueError",
                    <<"Task Grammar Error in ">> \o RoutineName
                        \o <<":\n", "<ValidationError>">>)
         [] IsDict(data) /\ RoutineValid(data) ->
              \* the routine is returned to parse_blueprint
              /\ routine' = RoutineModel(data)
              /\ pc' = "append"
              /\ context' = NoContext
              /\ raw_content' = TEmpty
              /\ rendered_yaml' = TEmpty
              /\ data' = PyNone
              /\ UNCHANGED <<calls, result, f, raw_data, blueprint,
                             execution_plan, idx>>
    /\ UNCHANGED <<env, filename, stdout>>

\* a compiler that leaves the condition out of the entry
PlanEntryNoCondition(ref, rt) ==
    [source_file |-> ref.file,
     condition |-> PyNone,
     steps |-> [j \in 1..Len(rt.steps) |-> ModelDump(rt.steps[j])]]

\* execution_plan["tasks"].append({...}), back in parse_blueprint
PlanEntry(ref, rt) ==
    [source_file |-> ref.file,
     condition |-> ref.when,
     steps |-> [j \in 1..Len(rt.steps) |-> ModelDump(rt.steps[j])]]

\* a compiler that puts each new entry in front of the earlier ones
AppendTaskInFront ==
    /\ pc = "append"
    /\ execution_plan' =
            [execution_plan EXCEPT
                !.tasks = <<PlanEntry(task_ref, routine)>> \o @]
    /\ idx' = idx + 1
    /\ pc' = "for_task_ref"
    /\ UNCHANGED <<env, calls, filename, f, raw_data, blueprint, routine,
                   rt_locals, result, log, stdout>>

AppendTask ==
    /\ pc = "append"
    /\ execution_plan' =
            [execution_plan EXCEPT
                !.tasks = Append(@, PlanEntry(task_ref, routine))]
    /\ idx' = idx + 1
    /\ pc' = "for_task_ref"
    /\ UNCHANGED <<env, calls, filename, f, raw_data, blueprint, routine,
                   rt_locals, result, log, stdout>>

\* ------------------------------------------------------------------------
\* The documents the projects of the model are made of
\* ------------------------------------------------------------------------
Str(s) == TScalar(<<Lit(s)>>)

\* the vars entry of a blueprint: none, or one "vars" pair
VarsPairs ==
    {<<>>,
     << <<"vars", TMap(<<>>)>> >>,
     << <<"vars", TMap(<< <<"port", Str("8080")>> >>)>> >>,
     << <<"vars", TMap(<< <<"port", Str("web")>> >>)>> >>,
     << <<"vars", TMap(<< <<"port", TQuoted(<<Lit("a"), Lit(": "), Lit("b")>>)>> >>)>> >>,
     << <<"vars", TMap(<< <<"keys", Str("1")>> >>)>> >>}

TaskRefTexts ==
    {TMap(<< <<"file", Str("a.yaml")>> >>),
     TMap(<< <<"file", Str("b.yaml")>> >>),
     TMap(<< <<"file", Str("a.yaml")>>, <<"when", Str("os == 'Debian'")>> >>),
     \* a condition written as a template
     TMap(<< <<"file", Str("b.yaml")>>, <<"when", TQuoted(<<Ref("port")>>)>> >>)}

RunLists == UNION {[1..n -> TaskRefTexts] : n \in 0..MaxRun}

MetaPairs ==
    << <<"name", Str("Web")>>, <<"target", Str("h1")>>, <<"user", Str("root")>> >>

BlueprintText(varsPairs, run) ==
    TMap(MetaPairs \o varsPairs \o << <<"run", TSeq(run)>> >>)

ValidBlueprintTexts ==
    {BlueprintText(vp, run) : vp \in VarsPairs, run \in RunLists}

InvalidBlueprintTexts ==
    {TEmpty,
     TBroken(<<Lit("name: Test\ninvalid: yaml: syntax:")>>),
     TSeq(<<Str("a")>>),
     Str("hello"),
     TMap(<<>>),
     \* no name, and a run list
     TMap(Tail(MetaPairs) \o << <<"run", TSeq(<<TMap(<< <<"file", Str("a.yaml")>> >>)>>)>> >>),
     \* a task reference without file
     BlueprintText(<<>>, <<TMap(<< <<"when", Str("x")>> >>)>>),
     \* vars: with no value
     BlueprintText(<< <<"vars", TScalar(<<>>)>> >>, <<>>),
     \* name: 8080
     TMap(<< <<"name", Str("8080")>> >> \o Tail(MetaPairs) \o << <<"run", TSeq(<<>>)>> >>)}

BlueprintNodes ==
    {Absent, Directory} \cup {File(t) : t \in ValidBlueprintTexts \cup InvalidBlueprintTexts}

StepText(nameSegs, more) ==
    TMap(<< <<"name", TScalar(nameSegs)>>, <<"uses", Str("shell")>> >> \o more)
WithCmd(segs) == << <<"with", TMap(<< <<"cmd", TScalar(segs)>> >>)>> >>
RoutineText(steps) == TMap(<< <<"steps", TSeq(steps)>> >>)

Templates ==
    {<<Lit("echo")>>,
     <<Lit("echo "), Ref("port")>>,
     <<Ref("port")>>,
     <<Lit("echo "), Ref("keys")>>,
     <<Lit("echo "), Ref("missing_var")>>}

RoutineTexts ==
    {RoutineText(<<StepText(<<Lit("x")>>, WithCmd(t))>>) : t \in Templates}
    \cup {TBroken(<<Lit("stepuses: shell\n    withUse")>>),
          TBroken(<<Lit("stepuses: shell\n    cmd: echo "), Ref("missing_var")>>),
          TBroken(<<Lit("stepuses: shell\n    cmd: echo "), Ref("keys")>>)}
    \cup {RoutineText(<<StepText(<<Lit("x")>>, <<>>)>>),
          RoutineText(<<>>),
          TMap(<<>>),
          TEmpty,
          TSeq(<<Str("a")>>),
          Str("hello"),
          RoutineText(<<TMap(<< <<"name", Str("x")>> >>)>>),
          RoutineText(<<StepText(<<Ref("port")>>, <<>>)>>),
          RoutineText(<<StepText(<<Lit("x")>>, WithCmd(<<Lit("echo "), Ref("port")>>)),
                        StepText(<<Lit("y")>>, << <<"ensure", Str("absent")>> >>)>>)}

RoutineNodes == {Absent, Directory} \cup {File(t) : t \in RoutineTexts}

OtherRoutineNodes ==
    {Absent,
     File(TEmpty),
     File(RoutineText(<<StepText(<<Lit("z")>>, WithCmd(<<Lit("echo")>>))>>)),
     File(RoutineText(<<StepText(<<Lit("z")>>, WithCmd(<<Ref("port")>>))>>))}

BlueprintPath(name) == PathJoin(ProjectRoot, <<name>>)
RoutinePath(name) == PathJoin(PathJoin(ProjectRoot, <<"tasks">>), <<name>>)

Project(bp, other, a, b) ==
    (BlueprintPath("bp.yaml") :> bp) @@ (BlueprintPath("other.yaml") :> other)
    @@ (RoutinePath("a.yaml") :> a) @@ (RoutinePath("b.yaml") :> b)

\* ------------------------------------------------------------------------
\* Specification: one compile call on any project
\* ------------------------------------------------------------------------
InitCall ==
    /\ self = NewParser(ProjectRoot)
    /\ calls = <<>>
    /\ pc = "idle"
    /\ filename = ""
    /\ f = TEmpty
    /\ raw_data = PyNone
    /\ blueprint = NoBlueprint
    /\ execution_plan = NoPlan
    /\ idx = 0
    /\ context = NoContext
    /\ raw_content = TEmpty
    /\ rendered_yaml = TEmpty
    /\ data = PyNone
    /\ routine = NoRoutine
    /\ result = NoResult
    /\ log = <<>>
    /\ stdout = <<>>

Init ==
    /\ \E bp \in BlueprintNodes, a \in RoutineNodes, b \in OtherRoutineNodes :
            fs = Project(bp, Absent, a, b)
    /\ budget = 1
    /\ InitCall

Next ==
    \/ \E name \in BlueprintNames : ParseBlueprint(name)
    \/ OpenBlueprint
    \/ LoadBlueprint
    \/ CheckBlueprint
    \/ ValidateBlueprint
    \/ CreatePlan
    \/ ForTaskRef
    \/ CheckExists
    \/ ReadRaw
    \/ RenderVariables
    \/ ParseRendered
    \/ CheckRoutine
    \/ ValidateRoutine
    \/ AppendTask
    \/ Return

Spec == Init /\ [][Next]_vars

\* ------------------------------------------------------------------------
\* Specification: up to MaxCalls compile calls on one parser instance
\* ------------------------------------------------------------------------
RefA == TMap(<< <<"file", Str("a.yaml")>> >>)
RefB == TMap(<< <<"file", Str("b.yaml")>> >>)

CallsBlueprintNodes ==
    {Absent,
     File(TEmpty),
     File(TBroken(<<Lit("name: Test\ninvalid: yaml: syntax:")>>)),
     File(TMap(<<>>)),
     File(BlueprintText(<<>>, <<RefA>>)),
     File(BlueprintText(<< <<"vars", TMap(<< <<"port", Str("8080")>> >>)>> >>, <<RefA>>)),
     File(BlueprintText(<< <<"vars", TMap(<< <<"keys", Str("1")>> >>)>> >>, <<RefB, RefA>>))}

CallsOtherNodes ==
    {Absent,
     File(TSeq(<<Str("a")>>)),
     File(TBroken(<<Lit("name: [")>>)),
     File(BlueprintText(<<>>, <<RefB, RefA>>))}

CallsRoutineNodes ==
    {Absent,
     File(TEmpty),
     File(TBroken(<<Lit("stepuses: shell\n    withUse")>>)),
     File(RoutineText(<<TMap(<< <<"name", Str("x")>> >>)>>)),
     File(RoutineText(<<StepText(<<Lit("x")>>, WithCmd(<<Lit("echo "), Ref("port")>>))>>)),
     File(RoutineText(<<StepText(<<Lit("x")>>, WithCmd(<<Lit("echo "), Ref("keys")>>))>>))}

InitCalls ==
    /\ \E bp \in CallsBlueprintNodes, other \in CallsOtherNodes,
          a \in CallsRoutineNodes :
            fs = Project(bp, other, a,
                         File(RoutineText(<<StepText(<<Lit("z")>>, <<>>)>>)))
    /\ budget = MaxCalls
    /\ InitCall

SpecCalls == InitCalls /\ [][Next]_vars

\* ------------------------------------------------------------------------
\* Specification: one compile call on a project whose blueprint names
\* routine files by paths that leave the tasks directory
\* ------------------------------------------------------------------------
\* file: ../secret.yaml
RefUp == TMap(<< <<"file", TScalar(<<Lit(".."), Lit("/"), Lit("secret.yaml")>>)>> >>)
\* file: /outside/secret.yaml
RefAbs ==
    TMap(<< <<"file", TScalar(<<Lit("/"), Lit("outside"), Lit("/"),
                                Lit("secret.yaml")>>)>> >>)

PathRefTexts == {RefA, RefUp, RefAbs}
PathRunLists == UNION {[1..n -> PathRefTexts] : n \in 1..MaxRun}

\* what is found at a path outside the tasks directory
PathTargets ==
    {Absent,
     File(TEmpty),
     File(RoutineText(<<StepText(<<Lit("s")>>, WithCmd(<<Lit("cat")>>))>>))}

InitPaths ==
    /\ \E run \in PathRunLists, a \in {Absent, File(RoutineText(<<>>))},
          up \in PathTargets, out \in PathTargets :
            fs = Project(File(BlueprintText(<<>>, run)), Absent, a, Absent)
                 @@ (<<"/", "proj", "secret.yaml">> :> up)
                 @@ (<<"/", "outside", "secret.yaml">> :> out)
    /\ budget = 1
    /\ InitCall

SpecPaths == InitPaths /\ [][Next]_vars

\* ------------------------------------------------------------------------
\* What a caller sees of a failure, and what the documents say
\* ------------------------------------------------------------------------
FiveKinds == {"NotFoundError", "SyntaxError", "EmptyDocumentError",
              "GrammarError", "VariableError"}

\* the kind of a raised error, read off its class and the start of its message
ErrorKind(outcome) ==
    CASE outcome.exc = "FileNotFoundError" -> "NotFoundError"
      [] outcome.exc = "ValueError" /\ outcome.msg[1] = "YAML Syntax Error in " ->
            "SyntaxError"
      [] outcome.exc = "ValueError"
            /\ outcome.msg[1] \in {"Blueprint file ", "Task file "} ->
            "EmptyDocumentError"
      [] outcome.exc = "ValueError"
            /\ outcome.msg[1] \in {"Blueprint Grammar Error:\n",
                                    "Task Grammar Error in "} ->
            "GrammarError"
      [] outcome.exc = "ValueError" /\ outcome.msg[1] = "Variable Error in " ->
            "VariableError"
      [] OTHER -> "naked"

\* the kind of failure a stage stands for
StageKind(stage) ==
    CASE stage \in {"open_blueprint", "exists"} -> "NotFoundError"
      [] stage \in {"load_blueprint", "parse"} -> "SyntaxError"
      [] stage \in {"check_blueprint", "check_routine"} -> "EmptyDocumentError"
      [] stage \in {"validate_blueprint", "validate_routine"} -> "GrammarError"
      [] stage = "render" -> "VariableError"
      [] OTHER -> "none"

Failed(c) == c.outcome.kind = "raise"
Succeeded(c) == c.outcome.kind = "return"
Finished == {calls[i] : i \in 1..Len(calls)}
LastCall == calls[Len(calls)]

\* the documents as authored
HasPair(node, key) ==
    KindOf(node) = "map"
    /\ \E i \in 1..Len(ContentOf(node)) : ContentOf(node)[i][1] = key
PairValue(node, key) ==
    ContentOf(node)[CHOOSE i \in 1..Len(ContentOf(node)) :
                        ContentOf(node)[i][1] = key][2]
BlueprintFile(name) == Lookup(BlueprintPath(name))
RoutineFile(file) == Lookup(PathJoin(PathJoin(ProjectRoot, <<"tasks">>), ValOf(file)))
AuthoredRun(name) == ContentOf(PairValue(BlueprintFile(name)[2], "run"))
AuthoredFile(refNode) == PyStr(ScalarText(ContentOf(PairValue(refNode, "file"))))
AuthoredVars(name) ==
    IF HasPair(BlueprintFile(name)[2], "vars")
    THEN YamlConstruct(PairValue(BlueprintFile(name)[2], "vars"))
    ELSE EmptyDict
AuthoredSteps(file) == ContentOf(PairValue(RoutineFile(file)[2], "steps"))

\* ------------------------------------------------------------------------
\* Properties
\* ------------------------------------------------------------------------

\* C1  All-or-nothing: a compile call that fails gives its caller no plan:
\* the outcome carries no entry of the plan under construction, nothing of
\* the plan stays behind in the parser or in the frame, and what was printed
\* is at most the line naming the blueprint.
C1_AllOrNothing ==
    /\ \A c \in Finished : Failed(c) => c.outcome.plan = NoPlan
    /\ (pc = "idle" /\ result.kind = "raise") =>
            /\ execution_plan = NoPlan
            /\ result.plan = NoPlan
            /\ self = NewParser(ProjectRoot)
            /\ \A i \in 1..Len(stdout) : stdout[i][1] = "[*] Parsing Blueprint: "

\* a call failed at its second task reference, after the entry of the first
\* had been built
C1_Witness ==
    /\ pc = "idle" /\ result.kind = "raise"
    /\ LastCall.ref = 2
    /\ \E i \in 1..Len(log) : log[i] = Event("validate", 1)

\* C2  Order preservation: a plan that is returned has one entry for each
\* task reference of the blueprint's run list, in the order of the list, and
\* entry i names the file of reference i.
C2_OrderPreserved ==
    \A c \in Finished : Succeeded(c) =>
        LET run == AuthoredRun(c.filename)
            tasks == c.outcome.plan.tasks
        IN /\ Len(tasks) = Len(run)
           /\ \A i \in 1..Len(run) : tasks[i].source_file = AuthoredFile(run[i])

\* a plan of two entries for two different files was returned
C2_Witness ==
    /\ pc = "idle" /\ result.kind = "return"
    /\ Len(result.plan.tasks) = 2
    /\ result.plan.tasks[1].source_file # result.plan.tasks[2].source_file

\* the references of the routine being rendered that are not keys of the
\* blueprint's vars map
UnknownRefs ==
    {i \in 1..Len(TextRefs(raw_content)) :
        TextRefs(raw_content)[i] \notin DOMAIN ValOf(context.d)}

\* C3  Strict variable resolution: rendering a routine that references
\* vars.X for an X that is not a key of the blueprint's vars map fails the
\* call with VariableError naming the routine file.
C3_StrictVariableResolution ==
    [][(pc = "render" /\ UnknownRefs # {}) =>
            /\ result'.kind = "raise"
            /\ ErrorKind(result') = "VariableError"
            /\ SubSeq(result'.msg, 2, 1 + Len(RoutineName)) = RoutineName]_vars

\* the text of a value of the vars map
ValueText(val) ==
    IF TypeOf(val) = "int" THEN <<NumeralOf[ValOf(val)]>> ELSE ValOf(val)

\* text with every reference replaced by the text of the value of its key
RECURSIVE ExactSegs(_, _)
ExactSegs(segs, d) ==
    IF segs = <<>> THEN <<>>
    ELSE (IF Head(segs)[1] = "ref"
          THEN [i \in 1..Len(ValueText(ValOf(d)[Head(segs)[2]])) |->
                    Lit(ValueText(ValOf(d)[Head(segs)[2]])[i])]
          ELSE <<Head(segs)>>)
         \o ExactSegs(Tail(segs), d)

RECURSIVE ExactText(_, _)
ExactText(node, d) ==
    CASE KindOf(node) \in {"scalar", "quoted", "broken"} ->
            <<KindOf(node), ExactSegs(ContentOf(node), d)>>
      [] KindOf(node) = "seq" ->
            TSeq([i \in 1..Len(ContentOf(node)) |-> ExactText(ContentOf(node)[i], d)])
      [] KindOf(node) = "map" ->
            TMap([i \in 1..Len(ContentOf(node)) |->
                    <<ContentOf(node)[i][1], ExactText(ContentOf(node)[i][2], d)>>])
      [] OTHER -> node

\* C4  Converse of strict resolution: when every key a routine references is
\* a key of the vars map, rendering succeeds and the rendered text is the
\* routine's text with each reference replaced by the text of its value.
C4_ExactSubstitution ==
    [][(pc = "render" /\ UnknownRefs = {}) =>
            /\ pc' = "parse"
            /\ rendered_yaml' = ExactText(raw_content, context.d)]_vars

\* C5  Closed error taxonomy: a call that fails, fails with one of the five
\* kinds, and a failure of schema validation (a top level that is not a
\* mapping included) is a GrammarError.
C5_ClosedTaxonomy ==
    \A c \in Finished : Failed(c) =>
        /\ ErrorKind(c.outcome) \in FiveKinds
        /\ c.stage \in {"validate_blueprint", "validate_routine"} =>
                ErrorKind(c.outcome) = "GrammarError"

\* the failures that carry one of the two documented exception classes
Documented(c) ==
    Failed(c) /\ c.outcome.exc \in {"FileNotFoundError", "ValueError"}

\* C6 as stated: two failures of different kinds are of different error
\* types, so that a caller matching on the type catches the one and not the
\* other.
C6_KindsAreTypes ==
    \A c1, c2 \in Finished :
        (Documented(c1) /\ Documented(c2)
            /\ StageKind(c1.stage) # StageKind(c2.stage)) =>
                c1.outcome.exc # c2.outcome.exc

\* C6  amended: the five kinds come in two exception classes.  A missing
\* file is a FileNotFoundError and nothing else is; the other four kinds are
\* all ValueError, and two of them of different kinds differ in the text
\* their message starts with, which is what tells the kind.
C6_TwoClasses ==
    /\ \A c \in Finished : Documented(c) =>
            /\ (c.outcome.exc = "FileNotFoundError")
                    <=> (StageKind(c.stage) = "NotFoundError")
            /\ ErrorKind(c.outcome) = StageKind(c.stage)
    /\ \A c1, c2 \in Finished :
        (Documented(c1) /\ Documented(c2)
            /\ StageKind(c1.stage) # StageKind(c2.stage)) =>
                \/ c1.outcome.exc # c2.outcome.exc
                \/ c1.outcome.msg[1] # c2.outcome.msg[1]

\* two calls failed with different kinds and the same exception class
C6_Witness ==
    \E c1, c2 \in Finished :
        /\ Documented(c1) /\ Documented(c2)
        /\ StageKind(c1.stage) # StageKind(c2.stage)
        /\ c1.outcome.exc = c2.outcome.exc

\* the mapping a step of a returned plan was authored with, for the address
\* a of the vars dict
AuthoredWith(name, file, j, a) ==
    LET stepNode == AuthoredSteps(file)[j] IN
    IF HasPair(stepNode, "with")
    THEN YamlConstruct(RenderText(PairValue(stepNode, "with"),
                                  [d |-> AuthoredVars(name), id |-> a]))
    ELSE EmptyDict

PlanSteps(c) ==
    {<<i, j>> \in (1..Len(c.outcome.plan.tasks)) \X (1..2) :
        j <= Len(c.outcome.plan.tasks[i].steps)}

\* C7 as stated: the step of the plan carries the mapping under args or
\* with_args.
C7_UnderFieldName ==
    \A c \in Finished : Succeeded(c) =>
        \A p \in PlanSteps(c) :
            LET task == c.outcome.plan.tasks[p[1]]
                step == task.steps[p[2]]
            IN \E key \in {"args", "with_args"} :
                /\ key \in DOMAIN step
                /\ \E a \in Addresses :
                    step[key] = AuthoredWith(c.filename, task.source_file, p[2], a)

\* C7  amended: the step of the plan carries the mapping under the authored
\* key `with`, whole, and under no other key: the keys of a step of the plan
\* are name, uses, ensure and with (with is the empty mapping when the step
\* was authored without it).
C7_UnderAlias ==
    \A c \in Finished : Succeeded(c) =>
        /\ \A i \in 1..Len(c.outcome.plan.tasks) :
                Len(c.outcome.plan.tasks[i].steps)
                    = Len(AuthoredSteps(c.outcome.plan.tasks[i].source_file))
        /\ \A p \in PlanSteps(c) :
            LET task == c.outcome.plan.tasks[p[1]]
                step == task.steps[p[2]]
            IN /\ DOMAIN step = {"name", "uses", "ensure", "with"}
               /\ \E a \in Addresses :
                    step["with"] = AuthoredWith(c.filename, task.source_file, p[2], a)

\* a plan was returned with a step that was authored with `with`
C7_Witness ==
    /\ pc = "idle" /\ result.kind = "return"
    /\ \E i \in 1..Len(result.plan.tasks) :
        /\ Len(result.plan.tasks[i].steps) > 0
        /\ result.plan.tasks[i].steps[1]["with"] # EmptyDict

\* the operations the call has made for task reference ref, in order
StageOrder == <<"exists", "read", "render", "parse", "empty", "validate">>
RECURSIVE OpsOf(_, _)
OpsOf(events, ref) ==
    IF events = <<>> THEN <<>>
    ELSE (IF Head(events).ref = ref THEN <<Head(events).op>> ELSE <<>>)
         \o OpsOf(Tail(events), ref)
InStageOrder(events, ref) ==
    /\ Len(OpsOf(events, ref)) <= Len(StageOrder)
    /\ \A k \in 1..Len(OpsOf(events, ref)) : OpsOf(events, ref)[k] = StageOrder[k]

\* C8  Per-reference stage order: the stages of a task reference run in the
\* order existence check, read, render, parse, emptiness check, schema
\* validation; a missing routine file fails with NotFoundError ("Task file
\* missing") with nothing read, rendered or parsed for it; and a routine that
\* references a variable that is not in the vars map and is malformed YAML
\* fails with VariableError.
C8_StageOrder ==
    [][/\ \A ref \in 1..(MaxRun + 1) : InStageOrder(log', ref)
       /\ (pc = "exists" /\ Lookup(task_path)[1] = "absent") =>
                /\ result'.kind = "raise"
                /\ ErrorKind(result') = "NotFoundError"
                /\ result'.msg[1] = "Task file missing: "
                /\ OpsOf(log', idx) = <<"exists">>
       /\ (pc = "render" /\ UnknownRefs # {} /\ ~YamlWellFormed(raw_content)) =>
                /\ result'.kind = "raise"
                /\ ErrorKind(result') = "VariableError"]_vars

\* the routine file a failed call was working on
FailingRoutine(c) == RoutineFile(AuthoredFile(AuthoredRun(c.filename)[c.ref]))

EmptyRunTexts == {BlueprintText(vp, <<>>) : vp \in VarsPairs}

\* C9  Empty content versus empty sequence: a routine that says `steps: []`
\* gives an entry with no steps and never fails the call, and a blueprint
\* that says `run: []` gives a plan with no tasks; a blueprint or a routine
\* with no content at all fails with EmptyDocumentError; a blueprint that is
\* the empty mapping fails with GrammarError.
C9_EmptyContentVsEmptySequence ==
    \A c \in Finished :
        LET bp == BlueprintFile(c.filename)
            tasks == c.outcome.plan.tasks
        IN /\ bp = File(TEmpty) =>
                (Failed(c) /\ ErrorKind(c.outcome) = "EmptyDocumentError")
           /\ bp = File(TMap(<<>>)) =>
                (Failed(c) /\ ErrorKind(c.outcome) = "GrammarError")
           /\ (bp[1] = "file" /\ bp[2] \in EmptyRunTexts) =>
                (Succeeded(c) /\ tasks = <<>>)
           /\ Succeeded(c) =>
                \A i \in 1..Len(tasks) :
                    /\ RoutineFile(tasks[i].source_file) # File(TEmpty)
                    /\ RoutineFile(tasks[i].source_file) = File(RoutineText(<<>>))
                            => tasks[i].steps = <<>>
           /\ (Failed(c) /\ c.ref >= 1) =>
                /\ FailingRoutine(c) # File(RoutineText(<<>>))
                /\ FailingRoutine(c) = File(TEmpty)
                        => ErrorKind(c.outcome) = "EmptyDocumentError"

\* a plan was returned with an entry of no steps, for a routine that says
\* `steps: []`
C9_Witness ==
    /\ pc = "idle" /\ result.kind = "return"
    /\ \E i \in 1..Len(result.plan.tasks) :
        /\ result.plan.tasks[i].steps = <<>>
        /\ RoutineFile(result.plan.tasks[i].source_file) = File(RoutineText(<<>>))

\* C10  Idempotence: two calls of one parser for the same blueprint file
\* have the same outcome, whatever calls were made in between, and no call
\* changes the parser.
C10_Idempotent ==
    /\ \A c1, c2 \in Finished :
            c1.filename = c2.filename => c1.outcome = c2.outcome
    /\ self = NewParser(ProjectRoot)

\* the condition a task reference was authored with
AuthoredWhen(refNode) ==
    IF HasPair(refNode, "when")
    THEN PyStr(ScalarText(ContentOf(PairValue(refNode, "when"))))
    ELSE PyNone

C11_FailsWhateverWhen ==
    /\ pc = "idle" /\ result.kind = "raise"
    /\ LastCall.ref >= 1
    /\ HasPair(AuthoredRun(LastCall.filename)[LastCall.ref], "when")
\* path is a file of the tasks directory of the project
InsideTasks(path) ==
    LET found == Resolve(<<>>, path)
        tasks == ProjectRoot \o <<"tasks">>
    IN /\ Len(found) > Len(tasks)
       /\ SubSeq(found, 1, Len(tasks)) = tasks

\* C12  Fixed routine location: the file the call checks for existence and
\* reads for a task reference with file name f is project_root/tasks/f, and
\* it is a file inside the tasks directory of the project, whatever string f
\* is (an absolute path or a name with `..` included).
C12_FixedRoutineLocation ==
    pc \in {"exists", "read"} =>
        /\ task_path = ProjectRoot \o <<"tasks">> \o PathParts(RoutineName)
        /\ InsideTasks(task_path)
\* the operations of the call are made reference by reference, in the order
\* of the run list: the existence check of a reference comes right after
\* the validation of the reference before it
LogInRunOrder ==
    \A k \in 1..(Len(log) - 1) :
        /\ log[k].ref <= log[k + 1].ref
        /\ (log[k].ref >= 1 /\ log[k].ref < log[k + 1].ref) =>
                /\ log[k] = Event("validate", log[k].ref)
                /\ log[k + 1] = Event("exists", log[k].ref + 1)

\* the routine file of reference i of a blueprint, as authored
AuthoredRoutine(name, i) == RoutineFile(AuthoredFile(AuthoredRun(name)[i]))

\* reference i names a routine that references a variable that is not a key
\* of the blueprint's vars map
HasUndefinedVariable(name, i) ==
    /\ AuthoredRoutine(name, i)[1] = "file"
    /\ \E k \in 1..Len(TextRefs(AuthoredRoutine(name, i)[2])) :
            TextRefs(AuthoredRoutine(name, i)[2])[k]
                \notin DOMAIN ValOf(AuthoredVars(name))

\* reference i names a routine that is well-formed without any variable and
\* does not pass RoutineModel
HasSchemaError(name, i) ==
    LET node == AuthoredRoutine(name, i) IN
    /\ node[1] = "file"
    /\ TextRefs(node[2]) = <<>>
    /\ YamlWellFormed(node[2])
    /\ IsDict(YamlConstruct(node[2]))
    /\ ~RoutineValid(YamlConstruct(node[2]))

\* C13  First error by list position: the references are processed in the
\* order of the run list, each one's stages complete before the next one's
\* existence check; a call that fails at reference k has made no operation
\* for a later reference; and when reference 1 has an undefined variable or
\* a schema error and reference 2 names a missing file, the call fails at
\* reference 1 and the file of reference 2 is never looked up.
C13_FirstErrorByPosition ==
    /\ LogInRunOrder
    /\ (pc = "idle" /\ result.kind = "raise" /\ LastCall.ref >= 1) =>
            /\ \A k \in 1..(LastCall.ref - 1) : OpsOf(log, k) = StageOrder
            /\ \A k \in (LastCall.ref + 1)..(MaxRun + 1) : OpsOf(log, k) = <<>>
    /\ (pc = "idle" /\ calls # <<>> /\ LastCall.ref >= 1
            /\ Len(AuthoredRun(LastCall.filename)) >= 2
            /\ AuthoredRoutine(LastCall.filename, 2) = Absent) =>
            /\ HasUndefinedVariable(LastCall.filename, 1) =>
                    /\ result.kind = "raise" /\ LastCall.ref = 1
                    /\ OpsOf(log, 2) = <<>>
            /\ HasSchemaError(LastCall.filename, 1) =>
                    /\ result.kind = "raise" /\ LastCall.ref = 1
                    /\ OpsOf(log, 2) = <<>>
BlueprintStageOrder == <<"open", "parse", "empty", "validate">>

\* the stage of the blueprint at which a call on this file has to stop, read
\* off the file: the first of the four checks the file does not pass
FirstFailingStage(node) ==
    CASE node[1] = "absent" -> "open_blueprint"
      [] node[1] = "file" /\ ~YamlWellFormed(node[2]) -> "load_blueprint"
      [] node[1] = "file" /\ YamlWellFormed(node[2])
            /\ YamlConstruct(node[2]) = PyNone -> "check_blueprint"
      [] node[1] = "file" /\ YamlWellFormed(node[2])
            /\ IsDict(YamlConstruct(node[2]))
            /\ ~BlueprintValid(YamlConstruct(node[2])) -> "validate_blueprint"
      [] OTHER -> "none"

\* the number of blueprint stages a call that stops at stage has run
StagesRun(stage) ==
    CASE stage = "open_blueprint" -> 1
      [] stage = "load_blueprint" -> 2
      [] stage = "check_blueprint" -> 3
      [] OTHER -> 4

FailingName(c) == ValOf(AuthoredFile(AuthoredRun(c.filename)[c.ref]))

Marked(msg) == \E k \in 1..Len(msg) : msg[k] = " after rendering: "

\* the message of c starts with tag and the name of the routine c failed in
NamesRoutine(c, tag) ==
    /\ c.ref >= 1
    /\ c.outcome.msg[1] = tag
    /\ SubSeq(c.outcome.msg, 2, 1 + Len(FailingName(c))) = FailingName(c)

\* C15  Error provenance: a GrammarError of the blueprint says "Blueprint
\* Grammar Error" and a GrammarError of a routine says "Task Grammar Error in"
\* and the routine's file name, never the other way round; a SyntaxError of
\* the blueprint names the blueprint file and has no "after rendering", and a
\* SyntaxError of a routine names the routine file and says "after
\* rendering".
C15_ErrorProvenance ==
    \A c \in Finished : Failed(c) =>
        /\ ErrorKind(c.outcome) = "GrammarError" =>
                \/ /\ c.stage = "validate_blueprint"
                   /\ c.outcome.msg[1] = "Blueprint Grammar Error:\n"
                \/ /\ c.stage = "validate_routine"
                   /\ NamesRoutine(c, "Task Grammar Error in ")
        /\ ErrorKind(c.outcome) = "SyntaxError" =>
                \/ /\ c.stage = "load_blueprint"
                   /\ SubSeq(c.outcome.msg, 1, 3)
                        = <<"YAML Syntax Error in ", c.filename, ": ">>
                   /\ ~Marked(c.outcome.msg)
                \/ /\ c.stage = "parse"
                   /\ NamesRoutine(c, "YAML Syntax Error in ")
                   /\ c.outcome.msg[2 + Len(FailingName(c))] = " after rendering: "
        /\ (c.stage = "validate_routine" /\ Documented(c)) =>
                ErrorKind(c.outcome) = "GrammarError"
        /\ (c.stage = "validate_blueprint" /\ Documented(c)) =>
                ErrorKind(c.outcome) = "GrammarError"
        /\ c.stage = "parse" => ErrorKind(c.outcome) = "SyntaxError"
        /\ c.stage = "load_blueprint" => ErrorKind(c.outcome) = "SyntaxError"

\* one parser has failed with a SyntaxError of a blueprint and with a
\* SyntaxError of a routine
C15_Witness ==
    /\ \E c1, c2 \in Finished :
        /\ c1.stage = "load_blueprint" /\ c2.stage = "parse"
        /\ ErrorKind(c1.outcome) = "SyntaxError"
        /\ ErrorKind(c2.outcome) = "SyntaxError"
        /\ Marked(c2.outcome.msg)
====
